---- MODULE Spec2Model ----
(***************************************************************************)
(* A model of the MonoLLM orchestration core: UnifiedLLMClient             *)
(* (src/src/unified_llm/core/client.py), the data model and the stream     *)
(* aggregator (core/models.py) and the error taxonomy (core/exceptions.py).*)
(* The provider adapters (unified_llm/providers) are the environment: what *)
(* they return, yield or raise is a nondeterministic choice.               *)
(***************************************************************************)
EXTENDS Integers, Sequences, FiniteSets, TLC

VARIABLES
    provider_info,      \* self.provider_info: the provider/model registry
    provider_metadata,  \* self.provider_metadata: per provider, its api_key
    providers,          \* self.providers: the live adapter map (its key set)
    cfgs,               \* the callers' RequestConfig objects
    heap,               \* the callers' metadata dict objects, by reference
    calls,              \* one record per generate / generate_stream call
    uuid_counter,       \* the number of uuid4() values drawn so far
    query,              \* the last registry query and what it gave
    closing,            \* the close() call and the adapters' close counts
    ctor_raises         \* the providers whose adapter constructor raises

vars == <<provider_info, provider_metadata, providers, cfgs, heap, calls, uuid_counter,
          query, closing, ctor_raises>>

-----------------------------------------------------------------------------
(* Bounds of the model.                                                    *)

\* Number of call slots (concurrent outstanding calls in SpecConc).
NCalls == 2
\* Longest event sequence an adapter stream produces.
MaxChunks == 3
\* Number of close() calls.
MaxCloses == 1
\* Longest event sequence handed to a consumer's collect.
MaxEvents == 4

CallIds == 1..NCalls

-----------------------------------------------------------------------------
(* Optional values.  Python's None for an optional string is NoneStr; an   *)
(* optional number is a sequence of length 0 (None) or 1.                  *)

NoneStr == "<None>"
NoneVal == <<>>
Some(v) == <<v>>

\* Python truthiness of a dict: a non-empty mapping.
DictTruthy(d) == DOMAIN d # {}
EmptyDict == <<>>
DictSet(d, k, v) == [x \in (DOMAIN d) \cup {k} |-> IF x = k THEN v ELSE d[x]]

-----------------------------------------------------------------------------
(* core/exceptions.py: the error taxonomy.                                 *)

\* UnifiedLLMError and all its subclasses: isinstance(e, UnifiedLLMError).
UnifiedLLMErrorKinds ==
    {"UnifiedLLMError", "ProviderError", "ConfigurationError", "RateLimitError",
     "AuthenticationError", "ModelNotFoundError", "QuotaExceededError",
     "ConnectionError", "ValidationError"}

\* An exception object; fields a class does not have are None.
MkError(kind, message, provider, model, status_code, error_code, field, value, available) ==
    [kind |-> kind, message |-> message, provider |-> provider, model |-> model,
     status_code |-> status_code, error_code |-> error_code, field |-> field,
     value |-> value, available_models |-> available]

UnifiedLLMError(message, provider, model) ==
    MkError("UnifiedLLMError", message, provider, model, NoneVal, NoneStr, NoneStr, NoneStr, <<>>)

ProviderError(message, provider, model, status_code) ==
    MkError("ProviderError", message, provider, model, status_code, NoneStr, NoneStr, NoneStr, <<>>)

ConfigurationError(message) ==
    MkError("ConfigurationError", message, NoneStr, NoneStr, NoneVal, NoneStr, NoneStr, NoneStr, <<>>)

ModelNotFoundError(message, provider, model, available) ==
    MkError("ModelNotFoundError", message, provider, model, Some(404), "model_not_found",
            NoneStr, NoneStr, available)

ValidationError(message, field, value) ==
    MkError("ValidationError", message, NoneStr, NoneStr, NoneVal, NoneStr, field, value, <<>>)

\* An exception that is not a UnifiedLLMError (ValueError, TypeError, ...).
PlainError(kind, message) ==
    MkError(kind, message, NoneStr, NoneStr, NoneVal, NoneStr, NoneStr, NoneStr, <<>>)

NoError == PlainError("<no error>", "")

IsUnifiedLLMError(e) == e.kind \in UnifiedLLMErrorKinds

-----------------------------------------------------------------------------
(* core/models.py: ModelInfo, ProviderInfo, and the registry the           *)
(* configuration object hands to the client.                               *)

ModelInfo(name, temp, streaming, thinking) ==
    [name |-> name, max_tokens |-> 4096, supports_temperature |-> temp,
     supports_streaming |-> streaming, is_reasoning_model |-> thinking,
     supports_thinking |-> thinking]

\* A ProviderInfo: its models mapping, with the mapping's key order.
ProviderInfo(name, order, models) ==
    [name |-> name, model_order |-> order, models |-> models]

\* Registry order of the providers (dict insertion order of provider_info).
ProviderOrder == <<"openai", "qwen", "acme">>

ConfiguredProviders ==
    [openai |-> ProviderInfo("OpenAI", <<"gpt", "o1", "shared">>,
                    [gpt    |-> ModelInfo("GPT", TRUE, TRUE, TRUE),
                     o1     |-> ModelInfo("O1", FALSE, FALSE, FALSE),
                     shared |-> ModelInfo("Shared-A", TRUE, FALSE, TRUE)]),
     qwen   |-> ProviderInfo("Qwen", <<"shared", "qwq">>,
                    [shared |-> ModelInfo("Shared-B", FALSE, TRUE, FALSE),
                     qwq    |-> ModelInfo("QwQ", TRUE, TRUE, FALSE)]),
     acme   |-> ProviderInfo("Acme", <<"acme1">>,
                    [acme1  |-> ModelInfo("Acme-1", TRUE, TRUE, TRUE)])]

\* The provider ids _initialize_providers has an adapter class for.
provider_classes == {"openai", "anthropic", "google", "qwen", "deepseek", "volcengine"}

\* Variant: an adapter is built whether or not there is an api_key.
initialize_providers_keyless(info, metadata, raising) ==
    {p \in DOMAIN info : p \in provider_classes /\ p \notin raising}

\* Variant: a provider is entered in the map although its constructor raised.
initialize_providers_uncaught(info, metadata, raising) ==
    {p \in DOMAIN info : p \in provider_classes /\ metadata[p] # ""}

\* _initialize_providers: an adapter for every registry provider that has an
\* implementation class and a non-empty api_key, and whose constructor
\* returns; one whose constructor raises is skipped.
initialize_providers(info, metadata, raising) ==
    {p \in DOMAIN info : p \in provider_classes /\ metadata[p] # "" /\ p \notin raising}

-----------------------------------------------------------------------------
(* UnifiedLLMClient.get_model_info                                         *)

Found(provider_id, model_info) ==
    [ok |-> TRUE, provider_id |-> provider_id, model_info |-> model_info, error |-> NoError]
Raised(e) ==
    [ok |-> FALSE, provider_id |-> NoneStr, model_info |-> ModelInfo("", FALSE, FALSE, FALSE),
     error |-> e]

\* Variant: only the model keys of one provider.
all_models_one(info, i) == info[ProviderOrder[i]].model_order

\* Concatenation of the providers' model key lists, in registry order.
RECURSIVE all_models(_, _)
all_models(info, i) ==
    IF i > Len(ProviderOrder) THEN <<>>
    ELSE info[ProviderOrder[i]].model_order \o all_models(info, i + 1)

\* Variant: the last provider whose models contain model_id.
last_provider_with(info, model_id, i) ==
    LET with == {j \in i..Len(ProviderOrder) : model_id \in DOMAIN info[ProviderOrder[j]].models}
    IN  IF with = {} THEN 0 ELSE CHOOSE j \in with : \A k \in with : k <= j

\* The first provider, from position i on, whose models contain model_id
\* (0 when there is none).
RECURSIVE first_provider_with(_, _, _)
first_provider_with(info, model_id, i) ==
    IF i > Len(ProviderOrder) THEN 0
    ELSE IF model_id \in DOMAIN info[ProviderOrder[i]].models THEN i
    ELSE first_provider_with(info, model_id, i + 1)

\* Variant: when the hinted provider does not declare the model, the other
\* providers are scanned.
get_model_info_fallback(info, model_id, provider_id) ==
    LET i == first_provider_with(info, model_id, 1) IN
    IF provider_id # NoneStr /\ provider_id \in DOMAIN info
       /\ model_id \in DOMAIN info[provider_id].models
    THEN Found(provider_id, info[provider_id].models[model_id])
    ELSE IF i # 0
    THEN Found(ProviderOrder[i], info[ProviderOrder[i]].models[model_id])
    ELSE Raised(ModelNotFoundError("Model '" \o model_id \o "' not found in any provider",
                                   "", model_id, all_models(info, 1)))

get_model_info(info, model_id, provider_id) ==
    IF provider_id # NoneStr /\ provider_id # ""
    THEN IF provider_id \notin DOMAIN info
         THEN Raised(ModelNotFoundError("Provider '" \o provider_id \o "' not found",
                                        provider_id, model_id, <<>>))
         ELSE IF model_id \notin DOMAIN info[provider_id].models
         THEN Raised(ModelNotFoundError(
                  "Model '" \o model_id \o "' not found in provider '" \o provider_id \o "'",
                  provider_id, model_id, info[provider_id].model_order))
         ELSE Found(provider_id, info[provider_id].models[model_id])
    ELSE LET i == first_provider_with(info, model_id, 1) IN
         IF i # 0
         THEN Found(ProviderOrder[i], info[ProviderOrder[i]].models[model_id])
         ELSE Raised(ModelNotFoundError("Model '" \o model_id \o "' not found in any provider",
                                        "", model_id, all_models(info, 1)))

-----------------------------------------------------------------------------
(* core/models.py: RequestConfig.  metadata is a reference to a dict       *)
(* object: NoneStr (no dict), a caller's dict in heap, or "own" (the       *)
(* dict a call created for itself).                                        *)

RequestConfig(model, provider, temperature, stream, show_thinking, metadata) ==
    [model |-> model, provider |-> provider, temperature |-> temperature,
     stream |-> stream, show_thinking |-> show_thinking, metadata |-> metadata]

\* str() of a temperature / of a bool, for ValidationError.value.
TempRepr(t) == IF t = Some(0) THEN "0.0" ELSE "1.0"

\* RequestConfig.model_copy(): a shallow copy.  The copy is a new object
\* with the same field values, so its metadata is the same dict reference.
model_copy(config) == config

-----------------------------------------------------------------------------
(* UnifiedLLMClient._validate_request_config                               *)

Validated(provider_id, model_id, model_info) ==
    [ok |-> TRUE, provider_id |-> provider_id, model_id |-> model_id,
     model_info |-> model_info, error |-> NoError]
Rejected(e) ==
    [ok |-> FALSE, provider_id |-> NoneStr, model_id |-> NoneStr,
     model_info |-> ModelInfo("", FALSE, FALSE, FALSE), error |-> e]

\* Variant: the streaming check runs before the temperature check.
validate_stream_first(info, live, config) ==
    LET r == get_model_info(info, config.model, config.provider) IN
    IF ~r.ok THEN Rejected(r.error)
    ELSE IF r.provider_id \notin live
    THEN Rejected(ConfigurationError(
             "Provider '" \o r.provider_id
                 \o "' is not available. Check your API key configuration."))
    ELSE IF config.stream /\ ~r.model_info.supports_streaming
    THEN Rejected(ValidationError(
             "Model '" \o config.model \o "' does not support streaming",
             "stream", "True"))
    ELSE IF config.temperature # NoneVal /\ ~r.model_info.supports_temperature
    THEN Rejected(ValidationError(
             "Model '" \o config.model \o "' does not support temperature control",
             "temperature", TempRepr(config.temperature)))
    ELSE IF config.show_thinking /\ ~r.model_info.supports_thinking
    THEN Rejected(ValidationError(
             "Model '" \o config.model \o "' does not support thinking steps",
             "show_thinking", "True"))
    ELSE Validated(r.provider_id, config.model, r.model_info)

\* Variant: the temperature check tests truthiness, so 0.0 counts as unset.
validate_temperature_truthy(info, live, config) ==
    LET r == get_model_info(info, config.model, config.provider) IN
    IF ~r.ok THEN Rejected(r.error)
    ELSE IF r.provider_id \notin live
    THEN Rejected(ConfigurationError(
             "Provider '" \o r.provider_id
                 \o "' is not available. Check your API key configuration."))
    ELSE IF config.temperature # NoneVal /\ config.temperature # Some(0)
            /\ ~r.model_info.supports_temperature
    THEN Rejected(ValidationError(
             "Model '" \o config.model \o "' does not support temperature control",
             "temperature", TempRepr(config.temperature)))
    ELSE IF config.stream /\ ~r.model_info.supports_streaming
    THEN Rejected(ValidationError(
             "Model '" \o config.model \o "' does not support streaming",
             "stream", "True"))
    ELSE IF config.show_thinking /\ ~r.model_info.supports_thinking
    THEN Rejected(ValidationError(
             "Model '" \o config.model \o "' does not support thinking steps",
             "show_thinking", "True"))
    ELSE Validated(r.provider_id, config.model, r.model_info)

\* Variant: without a hint, a model whose first declaring provider has no
\* live adapter resolves to the first declaring provider that has one.
validate_fallback_live(info, live, config) ==
    LET r0 == get_model_info(info, config.model, config.provider)
        alt == {i \in 1..Len(ProviderOrder) :
                   /\ ProviderOrder[i] \in live
                   /\ config.model \in DOMAIN info[ProviderOrder[i]].models}
        j == CHOOSE i \in alt : \A k \in alt : i <= k
        r == IF r0.ok /\ r0.provider_id \notin live /\ config.provider = NoneStr /\ alt # {}
             THEN Found(ProviderOrder[j], info[ProviderOrder[j]].models[config.model])
             ELSE r0
    IN
    IF ~r.ok THEN Rejected(r.error)
    ELSE IF r.provider_id \notin live
    THEN Rejected(ConfigurationError(
             "Provider '" \o r.provider_id
                 \o "' is not available. Check your API key configuration."))
    ELSE IF config.temperature # NoneVal /\ ~r.model_info.supports_temperature
    THEN Rejected(ValidationError(
             "Model '" \o config.model \o "' does not support temperature control",
             "temperature", TempRepr(config.temperature)))
    ELSE IF config.stream /\ ~r.model_info.supports_streaming
    THEN Rejected(ValidationError(
             "Model '" \o config.model \o "' does not support streaming",
             "stream", "True"))
    ELSE IF config.show_thinking /\ ~r.model_info.supports_thinking
    THEN Rejected(ValidationError(
             "Model '" \o config.model \o "' does not support thinking steps",
             "show_thinking", "True"))
    ELSE Validated(r.provider_id, config.model, r.model_info)

validate_request_config(info, live, config) ==
    LET r == get_model_info(info, config.model, config.provider) IN
    IF ~r.ok THEN Rejected(r.error)
    ELSE IF r.provider_id \notin live
    THEN Rejected(ConfigurationError(
             "Provider '" \o r.provider_id
                 \o "' is not available. Check your API key configuration."))
    ELSE IF config.temperature # NoneVal /\ ~r.model_info.supports_temperature
    THEN Rejected(ValidationError(
             "Model '" \o config.model \o "' does not support temperature control",
             "temperature", TempRepr(config.temperature)))
    ELSE IF config.stream /\ ~r.model_info.supports_streaming
    THEN Rejected(ValidationError(
             "Model '" \o config.model \o "' does not support streaming",
             "stream", "True"))
    ELSE IF config.show_thinking /\ ~r.model_info.supports_thinking
    THEN Rejected(ValidationError(
             "Model '" \o config.model \o "' does not support thinking steps",
             "show_thinking", "True"))
    ELSE Validated(r.provider_id, config.model, r.model_info)

-----------------------------------------------------------------------------
(* core/models.py: StreamChunk, Usage, LLMResponse, StreamingResponse.     *)

StreamChunk(content, thinking, is_complete, metadata) ==
    [content |-> content, thinking |-> thinking, is_complete |-> is_complete,
     metadata |-> metadata]

UsagePayload == [prompt_tokens |-> 5, completion_tokens |-> 2, total_tokens |-> 7]

\* Usage(**payload): the payload's values as given, reasoning_tokens optional.
Usage(payload) ==
    [prompt_tokens |-> payload.prompt_tokens,
     completion_tokens |-> payload.completion_tokens,
     total_tokens |-> payload.total_tokens,
     reasoning_tokens |-> IF "reasoning_tokens" \in DOMAIN payload
                          THEN Some(payload.reasoning_tokens) ELSE NoneVal]

\* The readings datetime.now() may give.
Timestamps == {"t1", "t2"}

LLMResponse(content, provider, model, usage, thinking, metadata, request_id, created_at) ==
    [content |-> content, provider |-> provider, model |-> model, usage |-> usage,
     thinking |-> thinking, metadata |-> metadata, request_id |-> request_id,
     created_at |-> created_at]

NoResponse == LLMResponse("", NoneStr, NoneStr, NoneVal, NoneStr, NoneVal, NoneVal, NoneStr)

\* The context a StreamingResponse carries beside its chunks; created_at is
\* the reading of datetime.now() in __init__.
StreamingResponse(provider, model, request_id, created_at) ==
    [provider |-> provider, model |-> model, request_id |-> request_id,
     created_at |-> created_at]

NoStream == StreamingResponse(NoneStr, NoneStr, NoneVal, NoneStr)

\* The events an adapter stream may yield.
ChunkUniverse ==
    {StreamChunk("Hel", NoneStr, FALSE, NoneVal),
     StreamChunk("", "step1", FALSE, Some([k |-> "v1"])),
     StreamChunk("lo", NoneStr, TRUE, Some([k |-> "v2", usage |-> UsagePayload])),
     StreamChunk("", NoneStr, TRUE, NoneVal)}

\* A usage payload with reasoning tokens, whose total is not the sum.
UsagePayloadReasoning ==
    [prompt_tokens |-> 5, completion_tokens |-> 2, total_tokens |-> 9, reasoning_tokens |-> 3]

\* The events of the sequences collect is applied to: those above, plain
\* content and thinking fragments, terminal events with a usage payload,
\* with an empty metadata map, and a usage key on a non-terminal event.
EventUniverse ==
    ChunkUniverse \cup
    {StreamChunk("lo", NoneStr, FALSE, NoneVal),
     StreamChunk("", "step2", FALSE, NoneVal),
     StreamChunk("", NoneStr, TRUE, Some([usage |-> UsagePayload])),
     StreamChunk("x", NoneStr, FALSE, Some([usage |-> UsagePayloadReasoning])),
     StreamChunk("", NoneStr, TRUE, Some([usage |-> UsagePayloadReasoning, k |-> "v3"])),
     StreamChunk("", NoneStr, TRUE, Some(EmptyDict))}

-----------------------------------------------------------------------------
(* StreamingResponse.collect: the loop body and the final LLMResponse.     *)

\* "".join(parts)
RECURSIVE Join(_)
Join(parts) == IF parts = <<>> THEN "" ELSE Head(parts) \o Join(Tail(parts))

\* Variant: a key already present keeps its value.
DictUpdateKeep(d, e) ==
    [x \in (DOMAIN d) \cup (DOMAIN e) |-> IF x \in DOMAIN d THEN d[x] ELSE e[x]]

\* dict.update
DictUpdate(d, e) ==
    [x \in (DOMAIN d) \cup (DOMAIN e) |-> IF x \in DOMAIN e THEN e[x] ELSE d[x]]

\* The locals of collect before the loop.
CollectInit ==
    [content_parts |-> <<>>, thinking_parts |-> <<>>, final_metadata |-> EmptyDict,
     usage |-> NoneVal, error |-> NoError]

\* Variant: a usage key counts on any event, terminal or not.
CollectStepAnyUsage(acc, chunk) ==
    LET a1 == IF chunk.content # ""
              THEN [acc EXCEPT !.content_parts = Append(@, chunk.content)] ELSE acc
        a2 == IF chunk.thinking # NoneStr /\ chunk.thinking # ""
              THEN [a1 EXCEPT !.thinking_parts = Append(@, chunk.thinking)] ELSE a1
        a3 == IF chunk.metadata # NoneVal /\ DictTruthy(chunk.metadata[1])
              THEN [a2 EXCEPT !.final_metadata = DictUpdate(@, chunk.metadata[1])] ELSE a2
    IN  IF chunk.metadata = NoneVal
        THEN IF chunk.is_complete
             THEN [a3 EXCEPT !.error =
                      PlainError("TypeError", "argument of type 'NoneType' is not iterable")]
             ELSE a3
        ELSE IF "usage" \in DOMAIN chunk.metadata[1]
        THEN [a3 EXCEPT !.usage = Some(Usage(chunk.metadata[1].usage))]
        ELSE a3

\* One iteration of the loop of collect on chunk.  `"usage" in chunk.metadata`
\* on a metadata of None raises TypeError, after the earlier statements of
\* the iteration have run.
CollectStep(acc, chunk) ==
    LET a1 == IF chunk.content # ""
              THEN [acc EXCEPT !.content_parts = Append(@, chunk.content)] ELSE acc
        a2 == IF chunk.thinking # NoneStr /\ chunk.thinking # ""
              THEN [a1 EXCEPT !.thinking_parts = Append(@, chunk.thinking)] ELSE a1
        a3 == IF chunk.metadata # NoneVal /\ DictTruthy(chunk.metadata[1])
              THEN [a2 EXCEPT !.final_metadata = DictUpdate(@, chunk.metadata[1])] ELSE a2
    IN  IF ~chunk.is_complete THEN a3
        ELSE IF chunk.metadata = NoneVal
        THEN [a3 EXCEPT !.error =
                 PlainError("TypeError", "argument of type 'NoneType' is not iterable")]
        ELSE IF "usage" \in DOMAIN chunk.metadata[1]
        THEN [a3 EXCEPT !.usage = Some(Usage(chunk.metadata[1].usage))]
        ELSE a3

\* The LLMResponse collect builds after the loop.
CollectResult(acc, sr) ==
    LLMResponse(Join(acc.content_parts), sr.provider, sr.model, acc.usage,
                IF acc.thinking_parts # <<>> THEN Join(acc.thinking_parts) ELSE NoneStr,
                Some(acc.final_metadata), sr.request_id, sr.created_at)

-----------------------------------------------------------------------------
(* The state of one generate / generate_stream call.                       *)

IdleCall ==
    [pc |-> "idle",             \* idle, in_generate, in_generate_stream,
                                \* collecting, streaming, done
     op |-> "none",             \* generate, generate_stream
     cfg |-> 0,                 \* the caller's RequestConfig object
     config |-> RequestConfig("", NoneStr, NoneVal, FALSE, FALSE, NoneStr),
                                \* the config that was validated
     config_with_id |-> RequestConfig("", NoneStr, NoneVal, FALSE, FALSE, NoneStr),
     own_md |-> EmptyDict,      \* the dict the call created for its copy
     provider_id |-> NoneStr, model_id |-> NoneStr,
     request_id |-> 0,
     inv |-> <<>>,              \* the adapter methods this call invoked
     sr |-> NoStream,           \* the StreamingResponse the adapter returned
     produced |-> <<>>,         \* events the adapter stream yielded
     delivered |-> <<>>,        \* events handed to collect or to the consumer
     acc |-> CollectInit,       \* the locals of collect
     adapter_response |-> NoResponse,
     adapter_error |-> NoError, \* what the adapter raised
     fail_phase |-> "none",     \* call, open, iterate: when it raised
     outcome |-> "none",        \* response, stream, error: what the call gave
     response |-> NoResponse, error |-> NoError,
     iter_error |-> NoError,    \* what iterating the stream raised
     collect_pc |-> "none",     \* the consumer's collect on the returned
                                \* stream: none, running, returned, raised
     collected |-> NoResponse,  \* what that collect returned
     collect_error |-> NoError, \* what that collect raised
     collect_calls |-> 0,       \* collect calls on the returned stream
     recollected |-> NoResponse,
                                \* what a second collect returned
     acquired |-> 0,            \* connections the adapter's stream acquired
     released |-> 0,            \* and released
     after_close |-> FALSE]     \* the call was made after close() returned

\* What the adapter of call c reads in its options' metadata.
OptionsMetadata(h, call) ==
    IF call.config_with_id.metadata = "own" THEN call.own_md
    ELSE h[call.config_with_id.metadata]

-----------------------------------------------------------------------------
(* generate / generate_stream up to the adapter call.                      *)

\* Variant: generate_stream keeps the caller's stream flag.
ForceStreamKeep(config) == model_copy(config)

\* generate_stream: config = config.model_copy(); config.stream = True
ForceStream(config) == [model_copy(config) EXCEPT !.stream = TRUE]

\* Variant: the request id is a fixed string.
Uuid4Fixed(n) == 1

\* str(uuid.uuid4()): the n-th value drawn is a fresh one.
Uuid4(n) == n

\* config_with_id.metadata = config_with_id.metadata or {}: the dict that
\* receives the request_id.
MetadataOrNew(h, ref) ==
    IF ref # NoneStr /\ DictTruthy(h[ref]) THEN ref ELSE "own"

\* Variant: generate ignores config.stream.
AdapterMethodNoStream(op, stream) ==
    IF op = "generate_stream" THEN "generate_stream" ELSE "generate"

\* The adapter method the call invokes.
AdapterMethod(op, stream) ==
    IF op = "generate_stream" \/ stream THEN "generate_stream" ELSE "generate"

\* Variant: the except clause wraps every exception.
HandleExceptionWrapAll(e, prefix, provider_id, model_id) ==
    UnifiedLLMError(prefix \o e.message, provider_id, model_id)

\* The except clause of generate / generate_stream.
HandleException(e, prefix, provider_id, model_id) ==
    IF IsUnifiedLLMError(e) THEN e
    ELSE UnifiedLLMError(prefix \o e.message, provider_id, model_id)

GeneratePrefix == "Unexpected error during generation: "
StreamPrefix == "Unexpected error during streaming generation: "
ErrorPrefix(op) == IF op = "generate" THEN GeneratePrefix ELSE StreamPrefix

\* The call ends by raising e.
RaiseFrom(call, e) == [call EXCEPT !.pc = "done", !.outcome = "error", !.error = e]

\* Call c, operation op on the caller's config object k: validation, the
\* request id, and the adapter call, up to the first await.
StartCall(c, op, k) ==
    /\ calls[c].pc = "idle"
    /\ LET caller == cfgs[k]
           config == IF op = "generate_stream" THEN ForceStream(caller) ELSE caller
           v == validate_request_config(provider_info, providers, config)
           request_id == Uuid4(uuid_counter + 1)
           copy == model_copy(config)
           ref == MetadataOrNew(heap, copy.metadata)
           config_with_id == [copy EXCEPT !.metadata = ref]
           own == IF ref = "own" THEN DictSet(EmptyDict, "request_id", request_id)
                  ELSE EmptyDict
           heap1 == IF ref = "own" THEN heap
                    ELSE [heap EXCEPT ![ref] = DictSet(@, "request_id", request_id)]
           method == AdapterMethod(op, caller.stream)
           started == [calls[c] EXCEPT !.op = op, !.cfg = k, !.config = config,
                                       !.after_close = closing.pc = "done"]
       IN  IF ~v.ok
           THEN /\ calls' = [calls EXCEPT ![c] = RaiseFrom(started, v.error)]
                /\ UNCHANGED <<heap, uuid_counter>>
           ELSE /\ calls' = [calls EXCEPT ![c] =
                       [started EXCEPT
                           !.pc = "in_" \o method,
                           !.config_with_id = config_with_id,
                           !.own_md = own,
                           !.provider_id = v.provider_id,
                           !.model_id = v.model_id,
                           !.request_id = request_id,
                           !.inv = Append(@, [provider |-> v.provider_id,
                                              method |-> method,
                                              options |-> config_with_id,
                                              metadata |-> IF ref = "own" THEN own
                                                           ELSE heap1[ref]])]]
                /\ heap' = heap1
                /\ uuid_counter' = uuid_counter + 1
    /\ UNCHANGED <<provider_info, provider_metadata, providers, cfgs, query, closing,
                   ctor_raises>>

Start(c) == \E op \in {"generate", "generate_stream"} : \E k \in DOMAIN cfgs : StartCall(c, op, k)

-----------------------------------------------------------------------------
(* The provider adapters: the environment of the client.                   *)

\* What an adapter's generate may return.
AdapterResponses(provider, model) ==
    {LLMResponse("Hello", provider, model, Some(Usage(UsagePayload)), NoneStr, NoneVal, NoneVal,
                 "t1"),
     LLMResponse("", provider, model, NoneVal, "step1", NoneVal, NoneVal, "t2")}

\* What an adapter may raise: canonical errors and one that is not.
AdapterErrors(provider, model) ==
    {ProviderError("Service Unavailable", provider, model, Some(503)),
     MkError("ConnectionError", "read timed out", provider, NoneStr, NoneVal, NoneStr,
             NoneStr, NoneStr, <<>>),
     PlainError("ValueError", "malformed vendor payload")}

Frame ==
    UNCHANGED <<provider_info, provider_metadata, providers, cfgs, heap, uuid_counter,
                query, closing, ctor_raises>>

\* Variant: adapter calls are serialised, one outstanding call at a time.
AwaitingSerial(c, method) ==
    /\ calls[c].pc = "in_" \o method
    /\ \A d \in CallIds : d < c => calls[d].pc \notin {"in_generate", "in_generate_stream"}

\* The call resumes from the await of the adapter method it invoked.
Awaiting(c, method) == calls[c].pc = "in_" \o method

\* provider.generate returns: generate returns that response.
AdapterGenerateReturns(c) ==
    /\ Awaiting(c, "generate")
    /\ \E r \in AdapterResponses(calls[c].provider_id, calls[c].model_id) :
          calls' = [calls EXCEPT ![c] =
              [@ EXCEPT !.pc = "done", !.adapter_response = r,
                        !.outcome = "response", !.response = r]]
    /\ Frame

\* provider.generate or provider.generate_stream raises: the except clause.
AdapterRaises(c) ==
    /\ Awaiting(c, "generate") \/ Awaiting(c, "generate_stream")
    /\ \E e \in AdapterErrors(calls[c].provider_id, calls[c].model_id) :
          LET call == calls[c]
          IN  calls' = [calls EXCEPT ![c] =
                 RaiseFrom([call EXCEPT !.adapter_error = e, !.fail_phase = "call"],
                           HandleException(e, ErrorPrefix(call.op),
                                           call.provider_id, call.model_id))]
    /\ Frame

\* The StreamingResponse an adapter builds: its own provider id, the model
\* and the request id of the options it was handed.
AdapterStream(h, call, now) ==
    StreamingResponse(call.provider_id, call.config_with_id.model,
                      Some(OptionsMetadata(h, call).request_id), now)

\* The adapter's event iterator ends, by exhaustion, by raising or by being
\* closed: the connection it holds is released.
AdapterStreamCloses(call) == [call EXCEPT !.released = @ + 1]

\* provider.generate_stream returns a StreamingResponse.  generate goes on
\* to collect it; generate_stream returns it to the caller.
AdapterStreamOpens(c) ==
    /\ Awaiting(c, "generate_stream")
    /\ \E now \in Timestamps :
          LET call == calls[c]
              sr == AdapterStream(heap, call, now)
          IN  calls' = [calls EXCEPT ![c] =
                 IF call.op = "generate"
                 THEN [call EXCEPT !.pc = "collecting", !.sr = sr, !.acquired = @ + 1]
                 ELSE [call EXCEPT !.pc = "streaming", !.sr = sr, !.outcome = "stream",
                                   !.acquired = @ + 1]]
    /\ Frame

-----------------------------------------------------------------------------
(* generate with stream = True: StreamingResponse.collect drives the       *)
(* stream inside the try block of generate.                                *)

\* The stream yields a chunk and the loop body of collect runs on it.
CollectChunk(c) ==
    /\ calls[c].pc = "collecting"
    /\ Len(calls[c].produced) < MaxChunks
    /\ \E chunk \in ChunkUniverse :
          LET call == calls[c]
              acc == CollectStep(call.acc, chunk)
              pulled == [call EXCEPT !.produced = Append(@, chunk),
                                     !.delivered = Append(@, chunk),
                                     !.acc = acc]
          IN  calls' = [calls EXCEPT ![c] =
                 IF acc.error = NoError THEN pulled
                 ELSE RaiseFrom(pulled,
                          HandleException(acc.error, GeneratePrefix,
                                          call.provider_id, call.model_id))]
    /\ Frame

\* The stream is exhausted: collect returns and generate returns its result.
CollectReturns(c) ==
    /\ calls[c].pc = "collecting"
    /\ LET call == calls[c]
       IN  calls' = [calls EXCEPT ![c] =
              AdapterStreamCloses(
                  [call EXCEPT !.pc = "done", !.outcome = "response",
                               !.response = CollectResult(call.acc, call.sr)])]
    /\ Frame

\* The stream raises while collect iterates it: the except clause of generate.
CollectFails(c) ==
    /\ calls[c].pc = "collecting"
    /\ \E e \in AdapterErrors(calls[c].provider_id, calls[c].model_id) :
          LET call == calls[c]
          IN  calls' = [calls EXCEPT ![c] =
                 AdapterStreamCloses(
                     RaiseFrom([call EXCEPT !.adapter_error = e, !.fail_phase = "iterate"],
                               HandleException(e, GeneratePrefix,
                                               call.provider_id, call.model_id)))]
    /\ Frame

-----------------------------------------------------------------------------
(* generate_stream: the consumer iterates the returned StreamingResponse   *)
(* (StreamingResponse.__aiter__), outside generate_stream's try block.     *)

\* Variant: the wrapper yields each chunk twice.
YieldTwice(delivered, chunk) == Append(Append(delivered, chunk), chunk)

\* Variant: the wrapper hands the newest chunk over before the earlier ones.
YieldNewestFirst(delivered, chunk) == <<chunk>> \o delivered

\* __aiter__ yields the chunk it pulled, once.
Yield(delivered, chunk) == Append(delivered, chunk)

\* What iterating the stream raises when the adapter's stream raises e.
IterRaise(e, provider_id, model_id) == e

IterChunk(c) ==
    /\ calls[c].pc = "streaming" /\ calls[c].collect_pc = "none"
    /\ Len(calls[c].produced) < MaxChunks
    /\ \E chunk \in ChunkUniverse :
          calls' = [calls EXCEPT ![c] =
              [@ EXCEPT !.produced = Append(@, chunk),
                        !.delivered = Yield(@, chunk)]]
    /\ Frame

IterEnds(c) ==
    /\ calls[c].pc = "streaming"
    /\ calls' = [calls EXCEPT ![c] = AdapterStreamCloses([@ EXCEPT !.pc = "done"])]
    /\ Frame

IterFails(c) ==
    /\ calls[c].pc = "streaming"
    /\ \E e \in AdapterErrors(calls[c].provider_id, calls[c].model_id) :
          LET call == calls[c]
          IN  calls' = [calls EXCEPT ![c] =
                 AdapterStreamCloses(
                     [call EXCEPT !.pc = "done", !.adapter_error = e, !.fail_phase = "iterate",
                                  !.iter_error = IterRaise(e, call.provider_id, call.model_id)])]
    /\ Frame

\* The consumer leaves its `async for` over the stream after at least one
\* event.  The generator of __aiter__ stays suspended at its yield, and
\* StreamingResponse has no close: nothing is done to self.chunks.
Abandon(c) ==
    /\ calls[c].pc = "streaming" /\ calls[c].collect_pc = "none"
    /\ Len(calls[c].delivered) >= 1
    /\ calls' = [calls EXCEPT ![c] = [@ EXCEPT !.pc = "abandoned"]]
    /\ Frame

\* The consumer lets go of its last reference to the StreamingResponse.
DropStream(c) ==
    /\ calls[c].pc = "abandoned"
    /\ calls' = [calls EXCEPT ![c] = [@ EXCEPT !.pc = "dropped"]]
    /\ Frame

\* The runtime finalises the unreferenced iterators: the adapter's event
\* iterator is closed.
FinalizeStream(c) ==
    /\ calls[c].pc = "dropped"
    /\ calls' = [calls EXCEPT ![c] = AdapterStreamCloses([@ EXCEPT !.pc = "finalized"])]
    /\ Frame

-----------------------------------------------------------------------------
(* The consumer calls collect on the StreamingResponse generate_stream     *)
(* returned: the loop of collect runs in the consumer, outside the client. *)

\* collect is called: its locals are initialised.
SrCollectStarts(c) ==
    /\ calls[c].pc = "streaming" /\ calls[c].collect_pc = "none"
    /\ calls' = [calls EXCEPT ![c] = [@ EXCEPT !.collect_pc = "running", !.acc = CollectInit,
                                              !.collect_calls = 1]]
    /\ Frame

\* The stream yields an event and the loop body of collect runs on it; an
\* error of the loop body leaves collect.
SrCollectChunk(c) ==
    /\ calls[c].pc = "streaming" /\ calls[c].collect_pc = "running"
    /\ Len(calls[c].produced) < MaxEvents
    /\ \E chunk \in EventUniverse :
          LET call == calls[c]
              acc == CollectStep(call.acc, chunk)
              pulled == [call EXCEPT !.produced = Append(@, chunk), !.acc = acc]
          IN  calls' = [calls EXCEPT ![c] =
                 IF acc.error = NoError THEN pulled
                 ELSE [pulled EXCEPT !.collect_pc = "raised", !.collect_error = acc.error]]
    /\ Frame

\* The stream is exhausted: collect returns the LLMResponse.
SrCollectReturns(c) ==
    /\ calls[c].pc = "streaming" /\ calls[c].collect_pc = "running"
    /\ LET call == calls[c]
       IN  calls' = [calls EXCEPT ![c] =
              AdapterStreamCloses(
                  [call EXCEPT !.collect_pc = "returned",
                               !.collected = CollectResult(call.acc, call.sr)])]
    /\ Frame

\* collect is called again after it returned.  self.chunks is the same
\* iterator, now exhausted: the loop body never runs and collect returns
\* the LLMResponse of its initial locals.
SrCollectAgain(c) ==
    /\ calls[c].pc = "streaming" /\ calls[c].collect_pc = "returned"
    /\ calls[c].collect_calls = 1
    /\ LET call == calls[c]
       IN  calls' = [calls EXCEPT ![c] =
              [call EXCEPT !.collect_calls = 2,
                           !.recollected = CollectResult(CollectInit, call.sr)]]
    /\ Frame

\* The stream raises while collect iterates it: collect has no handler.
SrCollectStreamFails(c) ==
    /\ calls[c].pc = "streaming" /\ calls[c].collect_pc = "running"
    /\ \E e \in AdapterErrors(calls[c].provider_id, calls[c].model_id) :
          calls' = [calls EXCEPT ![c] =
              AdapterStreamCloses(
                  [@ EXCEPT !.collect_pc = "raised", !.collect_error = e,
                            !.adapter_error = e, !.fail_phase = "iterate"])]
    /\ Frame

-----------------------------------------------------------------------------
(* The registry queries list_providers, list_models and get_model_info.    *)

\* list_providers: the registry itself.
list_providers(info) == [ok |-> TRUE, value |-> info, error |-> NoError]

\* list_models: per provider its model mapping, for one provider or for all.
list_models(info, provider_id) ==
    IF provider_id # NoneStr /\ provider_id # ""
    THEN IF provider_id \notin DOMAIN info
         THEN [ok |-> FALSE, value |-> <<>>,
               error |-> ModelNotFoundError("Provider '" \o provider_id \o "' not found",
                                            provider_id, "", ProviderOrder)]
         ELSE [ok |-> TRUE, value |-> [p \in {provider_id} |-> info[p].models],
               error |-> NoError]
    ELSE [ok |-> TRUE, value |-> [p \in DOMAIN info |-> info[p].models], error |-> NoError]

NoQuery == [op |-> "none", model |-> NoneStr, provider |-> NoneStr, result |-> NoneVal]

\* Variant: a query drops the models of a provider from the registry.
RegistryAfterQueryDrop(info) == [info EXCEPT !["qwen"] = info["acme"]]

\* self.provider_info after a query: the three queries only read it.
RegistryAfterQuery(info) == info

QueryFrame ==
    UNCHANGED <<provider_metadata, providers, cfgs, heap, calls, uuid_counter, closing,
                ctor_raises>>

ListProviders ==
    /\ query' = [op |-> "list_providers", model |-> NoneStr, provider |-> NoneStr,
                 result |-> list_providers(provider_info)]
    /\ provider_info' = RegistryAfterQuery(provider_info)
    /\ QueryFrame

ListModels(provider_id) ==
    /\ query' = [op |-> "list_models", model |-> NoneStr, provider |-> provider_id,
                 result |-> list_models(provider_info, provider_id)]
    /\ provider_info' = RegistryAfterQuery(provider_info)
    /\ QueryFrame

GetModelInfo(model_id, provider_id) ==
    /\ query' = [op |-> "get_model_info", model |-> model_id, provider |-> provider_id,
                 result |-> get_model_info(provider_info, model_id, provider_id)]
    /\ provider_info' = RegistryAfterQuery(provider_info)
    /\ QueryFrame

-----------------------------------------------------------------------------
(* close(): await provider.close() for each live adapter, in the order of  *)
(* self.providers; an error raised by an adapter's close leaves the loop.  *)

\* self.providers.values(): the live adapters in insertion order, which is
\* the registry order _initialize_providers went through.
LiveOrder(live) == SelectSeq(ProviderOrder, LAMBDA p : p \in live)

NotClosing ==
    [pc |-> "idle",             \* idle, closing, done, error
     started |-> 0,             \* close() calls so far
     at |-> 0,                  \* position of the loop in LiveOrder
     closed |-> [p \in DOMAIN ConfiguredProviders |-> 0],
                                \* per adapter, the close() calls it got
     error |-> NoError]

\* What an adapter's close may raise.
AdapterCloseErrors == {PlainError("RuntimeError", "session close failed")}

CloseFrame ==
    UNCHANGED <<provider_info, provider_metadata, providers, cfgs, heap, calls,
                uuid_counter, query, ctor_raises>>

\* The loop of close() reaches position i: it calls that adapter's close,
\* or returns when the adapters are exhausted.
CloseAt(cl, live, i) ==
    IF i > Len(LiveOrder(live))
    THEN [cl EXCEPT !.pc = "done", !.at = 0]
    ELSE [cl EXCEPT !.pc = "closing", !.at = i,
                    !.closed[LiveOrder(live)[i]] = @ + 1]

CloseStarts ==
    /\ closing.pc # "closing"
    /\ closing.started < MaxCloses
    /\ closing' = CloseAt([closing EXCEPT !.started = @ + 1, !.error = NoError],
                          providers, 1)
    /\ CloseFrame

AdapterCloseReturns ==
    /\ closing.pc = "closing"
    /\ closing' = CloseAt(closing, providers, closing.at + 1)
    /\ CloseFrame

AdapterCloseRaises ==
    /\ closing.pc = "closing"
    /\ \E e \in AdapterCloseErrors :
          closing' = [closing EXCEPT !.pc = "error", !.at = 0, !.error = e]
    /\ CloseFrame

-----------------------------------------------------------------------------
(* Construction, and the specifications.                               *)

InitHeap == [d_full |-> [trace |-> "t"], d_empty |-> EmptyDict]

Models == {"gpt", "o1", "shared", "qwq", "acme1", "nope"}
Hints == {NoneStr, "openai", "qwen", "acme", "ghost"}
Temperatures == {NoneVal, Some(0), Some(1)}
MetadataRefs == {NoneStr, "d_full", "d_empty"}

\* self.retry_config: RetryConfig with its defaults.
retry_config ==
    [max_attempts |-> 3, backoff_factor |-> 1, retry_on_status |-> {429, 500, 502, 503, 504}]

\* Every RequestConfig a caller may pass.
Configs ==
    {RequestConfig(m, p, t, s, th, md) :
        m \in Models, p \in Hints, t \in Temperatures,
        s \in BOOLEAN, th \in BOOLEAN, md \in MetadataRefs}

\* __init__ / _load_configuration: the registry and the api keys come from
\* the configuration, and _initialize_providers builds the live adapter map.
ConstructWith(keys, raising) ==
    /\ provider_info = ConfiguredProviders
    /\ provider_metadata = [p \in DOMAIN ConfiguredProviders |->
                               [api_key |-> IF p \in keys THEN "sk" ELSE ""]]
    /\ ctor_raises = raising
    /\ providers = initialize_providers(provider_info,
                       [p \in DOMAIN provider_metadata |-> provider_metadata[p].api_key],
                       ctor_raises)
    /\ heap = InitHeap
    /\ calls = [c \in CallIds |-> IdleCall]
    /\ uuid_counter = 0
    /\ query = NoQuery
    /\ closing = NotClosing

\* Construction in an environment where every adapter constructor returns.
Construct(keys) == ConstructWith(keys, {})

\* One call at a time, on any RequestConfig.
Init ==
    /\ \E keys \in {{"openai", "qwen", "acme"}, {"qwen", "acme"}, {"openai", "acme"}} :
          Construct(keys)
    /\ \E config \in Configs : cfgs = <<config>>

\* The call slot of the single caller.
Single == CHOOSE c \in CallIds : \A d \in CallIds : c <= d

Next ==
    \/ Start(Single)
    \/ AdapterGenerateReturns(Single)
    \/ AdapterRaises(Single)
    \/ AdapterStreamOpens(Single)
    \/ CollectChunk(Single)
    \/ CollectReturns(Single)
    \/ CollectFails(Single)
    \/ IterChunk(Single)
    \/ IterEnds(Single)
    \/ IterFails(Single)
    \/ Abandon(Single)
    \/ DropStream(Single)
    \/ FinalizeStream(Single)

Spec == Init /\ [][Next]_vars

\* The RequestConfig objects of the concurrent callers; the first two share
\* one non-empty metadata dict, and the third one fails validation.
ConcConfigs ==
    <<RequestConfig("gpt", NoneStr, Some(1), FALSE, FALSE, "d_full"),
      RequestConfig("qwq", "qwen", NoneVal, FALSE, FALSE, "d_full"),
      RequestConfig("o1", NoneStr, NoneVal, FALSE, TRUE, NoneStr)>>

InitConc ==
    /\ Construct({"openai", "qwen", "acme"})
    /\ cfgs = ConcConfigs

\* NCalls concurrent calls: every await is a point where another call runs.
NextConc ==
    \E c \in CallIds :
        \/ Start(c)
        \/ AdapterGenerateReturns(c)
        \/ AdapterRaises(c)
        \/ AdapterStreamOpens(c)

SpecConc == InitConc /\ [][NextConc]_vars

\* The registry queries, among one call and close().
InitReg ==
    /\ \E keys \in {{"openai", "qwen", "acme"}, {"qwen", "acme"}, {"openai", "acme"}} :
          \E raising \in {{}, {"openai"}} : ConstructWith(keys, raising)
    /\ cfgs = ConcConfigs

NextReg ==
    \/ ListProviders
    \/ \E provider_id \in Hints : ListModels(provider_id)
    \/ \E model_id \in Models : \E provider_id \in Hints : GetModelInfo(model_id, provider_id)
    \/ Start(Single)
    \/ AdapterGenerateReturns(Single)
    \/ AdapterRaises(Single)
    \/ AdapterStreamOpens(Single)
    \/ CloseStarts
    \/ AdapterCloseReturns
    \/ AdapterCloseRaises

SpecReg == InitReg /\ [][NextReg]_vars

\* A consumer collects the stream of a generate_stream call.
CollectConfigs ==
    {RequestConfig("gpt", NoneStr, NoneVal, FALSE, FALSE, NoneStr)}

InitCollect ==
    /\ Construct({"openai", "qwen", "acme"})
    /\ \E config \in CollectConfigs : cfgs = <<config>>

StartStream(c) == \E k \in DOMAIN cfgs : StartCall(c, "generate_stream", k)

NextCollect ==
    \/ StartStream(Single)
    \/ AdapterStreamOpens(Single)
    \/ IterChunk(Single)
    \/ SrCollectStarts(Single)
    \/ SrCollectChunk(Single)
    \/ SrCollectReturns(Single)
    \/ SrCollectAgain(Single)
    \/ SrCollectStreamFails(Single)

SpecCollect == InitCollect /\ [][NextCollect]_vars

-----------------------------------------------------------------------------
(* Vocabulary of the properties.                                           *)

Started(c) == calls[c].op # "none"
Done(c) == calls[c].pc = "done"

\* The RequestConfig object the caller passed to call c.
CallerConfig(c) == cfgs[calls[c].cfg]

\* The registry's answer for a config.
Resolution(config) == get_model_info(provider_info, config.model, config.provider)

\* Whether a config asks for an option, and whether a model supports it.
Asks(config, option) ==
    CASE option = "temperature" -> config.temperature # NoneVal
      [] option = "stream" -> config.stream
      [] option = "show_thinking" -> config.show_thinking
Supports(model_info, option) ==
    CASE option = "temperature" -> model_info.supports_temperature
      [] option = "stream" -> model_info.supports_streaming
      [] option = "show_thinking" -> model_info.supports_thinking

Options == <<"temperature", "stream", "show_thinking">>

\* The checks of validation, numbered in the order of section 4.2:
\* 1 registry lookup, 2 live adapter, 3 temperature, 4 stream, 5 show_thinking.
CheckFails(config, i) ==
    LET r == Resolution(config) IN
    IF i = 1 THEN ~r.ok
    ELSE /\ r.ok
         /\ IF i = 2 THEN r.provider_id \notin providers
            ELSE Asks(config, Options[i - 2]) /\ ~Supports(r.model_info, Options[i - 2])
FailingChecks(config) == {i \in 1..5 : CheckFails(config, i)}
FirstFailing(config) ==
    CHOOSE i \in FailingChecks(config) : \A j \in FailingChecks(config) : i <= j

\* The error class and field each check raises.
CheckError ==
    <<[kind |-> "ModelNotFoundError", field |-> NoneStr],
      [kind |-> "ConfigurationError", field |-> NoneStr],
      [kind |-> "ValidationError", field |-> "temperature"],
      [kind |-> "ValidationError", field |-> "stream"],
      [kind |-> "ValidationError", field |-> "show_thinking"]>>

\* collect, computed over a whole event sequence.
RECURSIVE CollectAll(_, _)
CollectAll(acc, chunks) ==
    IF chunks = <<>> THEN acc ELSE CollectAll(CollectStep(acc, Head(chunks)), Tail(chunks))

\* The number of invocations of an adapter method by call c.
Invocations(c, method) ==
    Cardinality({i \in DOMAIN calls[c].inv : calls[c].inv[i].method = method})

-----------------------------------------------------------------------------
(* C1..C4: validation and dispatch of a single call (Spec).                *)

\* C1: validation raises exactly the error of the first check, in the order
\* lookup, live adapter, temperature, stream, show_thinking, that fails on
\* the validated config, whatever later checks would also fail; when no
\* check fails the call goes on to the adapter.
C1_FirstFailingCheckDecides ==
    \A c \in CallIds : Started(c) =>
        LET config == calls[c].config IN
        IF FailingChecks(config) = {}
        THEN calls[c].inv # <<>>
        ELSE /\ Done(c) /\ calls[c].outcome = "error" /\ calls[c].inv = <<>>
             /\ calls[c].error.kind = CheckError[FirstFailing(config)].kind
             /\ calls[c].error.field = CheckError[FirstFailing(config)].field

\* A request on which the temperature check and a later check both fail
\* has been rejected.
C1_Witness ==
    \E c \in CallIds :
        /\ Done(c)
        /\ {3, 4} \subseteq FailingChecks(calls[c].config)
        /\ calls[c].error.field = "temperature"

\* C2 as stated: each requested option the resolved model does not support
\* makes the call raise ValidationError naming that very option, with no
\* adapter method called.
C2_EachUnsupportedOptionNamed ==
    \A c \in CallIds : Started(c) =>
        LET config == CallerConfig(c)
            r == Resolution(config)
        IN  r.ok => \A i \in 1..3 :
                (Asks(config, Options[i]) /\ ~Supports(r.model_info, Options[i])) =>
                    /\ Done(c) /\ calls[c].outcome = "error"
                    /\ calls[c].error.kind = "ValidationError"
                    /\ calls[c].error.field = Options[i]
                    /\ calls[c].inv = <<>>

\* C2 amended: a requested option the resolved model does not support makes
\* the call raise before any adapter method is called; the error is
\* ConfigurationError when the resolved provider has no live adapter, and
\* otherwise ValidationError naming the first option, in the order
\* temperature, stream, show_thinking, that the validated request asks for
\* and the model does not support.
C2_UnsupportedOptionRejected ==
    \A c \in CallIds : Started(c) =>
        LET config == CallerConfig(c)
            validated == calls[c].config
            r == Resolution(config)
            unsupported == {i \in 1..3 : Asks(validated, Options[i])
                                         /\ ~Supports(r.model_info, Options[i])}
        IN  (r.ok /\ \E i \in 1..3 : Asks(config, Options[i])
                                     /\ ~Supports(r.model_info, Options[i])) =>
                /\ Done(c) /\ calls[c].outcome = "error"
                /\ calls[c].inv = <<>>
                /\ IF r.provider_id \notin providers
                   THEN calls[c].error.kind = "ConfigurationError"
                   ELSE /\ calls[c].error.kind = "ValidationError"
                        /\ \E i \in unsupported :
                              /\ \A j \in unsupported : i <= j
                              /\ calls[c].error.field = Options[i]

\* A request for temperature 0.0 on a model without temperature control,
\* on a live provider, has been rejected.
C2_Witness ==
    \E c \in CallIds :
        /\ Done(c) /\ calls[c].outcome = "error"
        /\ CallerConfig(c).temperature = Some(0)
        /\ Resolution(CallerConfig(c)).ok
        /\ Resolution(CallerConfig(c)).provider_id \in providers
        /\ ~Resolution(CallerConfig(c)).model_info.supports_temperature
        /\ calls[c].error.field = "temperature"

\* C3: a generate call invokes at most one adapter method, once: that of
\* the resolved provider, generate_stream when config.stream and generate
\* otherwise; a call that passed validation and ended invoked exactly one;
\* and the response it returns is collect's fold of the stream, or the
\* adapter's response.
C3_OneAdapterCall ==
    \A c \in CallIds : (Started(c) /\ calls[c].op = "generate") =>
        LET config == CallerConfig(c)
            call == calls[c]
        IN  /\ Len(call.inv) <= 1
            /\ (FailingChecks(config) = {}) => Len(call.inv) = 1
            /\ call.inv # <<>> =>
                  /\ call.inv[1].provider = Resolution(config).provider_id
                  /\ call.inv[1].method =
                        IF config.stream THEN "generate_stream" ELSE "generate"
            /\ call.outcome = "response" =>
                  call.response =
                     IF config.stream
                     THEN CollectResult(CollectAll(CollectInit, call.produced), call.sr)
                     ELSE call.adapter_response

\* A generate call with stream = True has returned the fold of a stream of
\* two events.
C3_Witness ==
    \E c \in CallIds :
        /\ calls[c].op = "generate" /\ CallerConfig(c).stream
        /\ calls[c].outcome = "response"
        /\ Len(calls[c].produced) = 2
        /\ calls[c].response.content = "Hello"

\* C4: in generate, a canonical error raised by the adapter reaches the
\* caller unchanged; any other error is replaced by a UnifiedLLMError
\* carrying the resolved provider and model, its message ending with the
\* original message.
C4_ErrorsPassOrWrap ==
    \A c \in CallIds :
        (calls[c].op = "generate" /\ calls[c].adapter_error # NoError) =>
            LET call == calls[c]
                e == call.adapter_error
            IN  /\ Done(c) /\ call.outcome = "error"
                /\ IF e.kind \in UnifiedLLMErrorKinds
                   THEN call.error = e
                   ELSE /\ call.error.kind = "UnifiedLLMError"
                        /\ call.error.provider = Resolution(CallerConfig(c)).provider_id
                        /\ call.error.model = CallerConfig(c).model
                        /\ call.error.message =
                              "Unexpected error during generation: " \o e.message

\* The adapter's generate raised a 503 ProviderError and the caller got it.
C4_Witness ==
    \E c \in CallIds :
        /\ calls[c].op = "generate" /\ Done(c)
        /\ calls[c].adapter_error.kind = "ProviderError"
        /\ calls[c].adapter_error.status_code = Some(503)
        /\ calls[c].fail_phase = "call"

-----------------------------------------------------------------------------
(* C5..C7: adapter failures, retries and streams (Spec).                   *)

\* The error the caller or the consumer of call c got.
Surfaced(c) ==
    IF calls[c].op = "generate_stream" /\ calls[c].fail_phase = "iterate"
    THEN calls[c].iter_error ELSE calls[c].error

\* C5: a non-canonical failure of the adapter's stream while the consumer
\* iterates the stream generate_stream returned reaches the consumer as a
\* generic UnifiedLLMError tagged with the resolved provider and model.
C5_IterationFailureWrapped ==
    \A c \in CallIds :
        (/\ calls[c].op = "generate_stream"
         /\ calls[c].fail_phase = "iterate"
         /\ calls[c].adapter_error.kind \notin UnifiedLLMErrorKinds) =>
            /\ calls[c].iter_error.kind = "UnifiedLLMError"
            /\ calls[c].iter_error.provider = calls[c].provider_id
            /\ calls[c].iter_error.model = calls[c].model_id

\* C6: a generate call whose adapter fails with status 503 on every attempt
\* has invoked the adapter max_attempts times when it ends, and surfaces
\* the 503 ProviderError as it was raised.
C6_RetriedMaxAttempts ==
    \A c \in CallIds :
        (/\ calls[c].op = "generate" /\ Done(c)
         /\ calls[c].fail_phase = "call"
         /\ calls[c].adapter_error.kind = "ProviderError"
         /\ calls[c].adapter_error.status_code = Some(503)) =>
            /\ Len(calls[c].inv) = retry_config.max_attempts
            /\ calls[c].error = calls[c].adapter_error

\* C7 as stated: a streaming call that fails after at least one event is
\* not retried, delivers no event twice, and surfaces the original error.
C7_OriginalErrorAfterPartialStream ==
    \A c \in CallIds :
        (calls[c].fail_phase = "iterate" /\ Len(calls[c].delivered) >= 1) =>
            /\ Done(c)
            /\ Invocations(c, "generate_stream") = 1
            /\ calls[c].delivered = calls[c].produced
            /\ Surfaced(c) = calls[c].adapter_error

\* C7 amended: such a call is not retried and delivers no event twice, and
\* it fails at once: with the original error when that error is canonical
\* or when the consumer iterates the stream of generate_stream, and, in
\* generate, with the generic UnifiedLLMError that wraps the original
\* message when it is not canonical.
C7_NoRetryAfterPartialStream ==
    \A c \in CallIds :
        (calls[c].fail_phase = "iterate" /\ Len(calls[c].delivered) >= 1) =>
            LET e == calls[c].adapter_error IN
            /\ Done(c)
            /\ Len(calls[c].inv) = 1
            /\ Invocations(c, "generate_stream") = 1
            /\ calls[c].delivered = calls[c].produced
            /\ IF calls[c].op = "generate_stream" \/ e.kind \in UnifiedLLMErrorKinds
               THEN Surfaced(c) = e
               ELSE /\ Surfaced(c).kind = "UnifiedLLMError"
                    /\ Surfaced(c).provider = calls[c].provider_id
                    /\ Surfaced(c).model = calls[c].model_id
                    /\ Surfaced(c).message =
                          "Unexpected error during generation: " \o e.message

\* The consumer of a generate_stream stream got one event and then the
\* adapter's 503.
C7_Witness ==
    \E c \in CallIds :
        /\ calls[c].op = "generate_stream" /\ Done(c)
        /\ calls[c].fail_phase = "iterate"
        /\ Len(calls[c].delivered) = 1
        /\ calls[c].iter_error.status_code = Some(503)

-----------------------------------------------------------------------------
(* C8..C10: concurrent calls (SpecConc).                                   *)

\* The adapter call of c is outstanding (its stream included).
InFlight(c) == calls[c].pc \in {"in_generate", "in_generate_stream", "streaming"}

\* C8: every outstanding adapter call reads its own request_id in its
\* options' metadata, and the callers' RequestConfig objects and metadata
\* maps are as the callers made them.
C8_RequestIdIsolated ==
    /\ \A c \in CallIds :
          InFlight(c) => OptionsMetadata(heap, calls[c]).request_id = calls[c].request_id
    /\ cfgs = ConcConfigs
    /\ heap = InitHeap

\* C9: whatever the other calls are doing, an outstanding adapter call can
\* complete at once, with any response or error of its own adapter, and a
\* completed call holds what its own adapter gave it.
C9_CallsIndependent ==
    \A c \in CallIds :
        /\ calls[c].pc = "in_generate" =>
              /\ \A r \in AdapterResponses(calls[c].provider_id, calls[c].model_id) :
                    ENABLED (AdapterGenerateReturns(c) /\ calls'[c].response = r)
              /\ \A e \in AdapterErrors(calls[c].provider_id, calls[c].model_id) :
                    ENABLED (AdapterRaises(c) /\ calls'[c].adapter_error = e)
        /\ calls[c].pc = "in_generate_stream" =>
              /\ ENABLED AdapterStreamOpens(c)
              /\ \A e \in AdapterErrors(calls[c].provider_id, calls[c].model_id) :
                    ENABLED (AdapterRaises(c) /\ calls'[c].adapter_error = e)
        /\ calls[c].outcome = "response" => calls[c].response = calls[c].adapter_response
        /\ (calls[c].outcome = "error" /\ calls[c].inv # <<>>) =>
              calls[c].error \in {calls[c].adapter_error,
                                  UnifiedLLMError(ErrorPrefix(calls[c].op)
                                                      \o calls[c].adapter_error.message,
                                                  calls[c].provider_id, calls[c].model_id)}

\* A call to one provider failed while an earlier call to another provider
\* is still outstanding.
C9_Witness ==
    \E c, d \in CallIds :
        /\ calls[c].pc = "in_generate" /\ Done(d)
        /\ calls[d].outcome = "error" /\ calls[d].adapter_error # NoError
        /\ calls[c].provider_id # calls[d].provider_id
        /\ calls[c].request_id < calls[d].request_id

\* C10: the options handed to an adapter carry the call's request_id in
\* their metadata, and no two calls have the same request_id.
C10_FreshRequestId ==
    \A c \in CallIds : calls[c].inv # <<>> =>
        /\ "request_id" \in DOMAIN calls[c].inv[1].metadata
        /\ calls[c].inv[1].metadata.request_id = calls[c].request_id
        /\ \A d \in CallIds \ {c} : calls[d].inv # <<>> =>
              calls[d].inv[1].metadata.request_id # calls[c].inv[1].metadata.request_id

\* Two calls on the same RequestConfig object both reached their adapter,
\* one after the other had ended.
C10_Witness ==
    \E c, d \in CallIds :
        /\ c # d /\ calls[c].cfg = calls[d].cfg
        /\ calls[c].inv # <<>> /\ calls[d].inv # <<>>
        /\ Done(c) /\ calls[c].request_id < calls[d].request_id

-----------------------------------------------------------------------------
(* C11, C12: forced streaming and providers without a credential (Spec).   *)

C12_NoCredentialNoAdapter ==
    /\ \A p \in DOMAIN provider_info :
          provider_metadata[p].api_key = "" => p \notin providers
    /\ \A c \in CallIds : Started(c) =>
          LET r == Resolution(CallerConfig(c)) IN
          (r.ok /\ provider_metadata[r.provider_id].api_key = "") =>
              /\ Done(c) /\ calls[c].outcome = "error"
              /\ calls[c].error.kind = "ConfigurationError"
              /\ calls[c].inv = <<>>

\* A call without a provider hint resolved to a provider that has no
\* api_key and raised ConfigurationError.
C12_Witness ==
    \E c \in CallIds :
        /\ Done(c) /\ CallerConfig(c).provider = NoneStr
        /\ Resolution(CallerConfig(c)).ok
        /\ provider_metadata[Resolution(CallerConfig(c)).provider_id].api_key = ""
        /\ calls[c].error.kind = "ConfigurationError"

-----------------------------------------------------------------------------
(* C13..C17: the registry queries (SpecReg).                               *)

\* The positions, in registry order, of the providers declaring a model.
Declaring(model_id) ==
    {i \in 1..Len(ProviderOrder) : model_id \in DOMAIN provider_info[ProviderOrder[i]].models}

\* Every model id declared by a provider of the registry.
Catalog == UNION {DOMAIN provider_info[p].models : p \in DOMAIN provider_info}

Elements(seq) == {seq[i] : i \in DOMAIN seq}

\* C13: get_model_info with a hint naming a known provider returns that
\* provider and its ModelInfo when it declares the model, and raises
\* ModelNotFoundError otherwise, whatever the other providers declare.
C13_HintLooksInsideProvider ==
    (query.op = "get_model_info" /\ query.provider \in DOMAIN provider_info) =>
        LET models == provider_info[query.provider].models IN
        IF query.model \in DOMAIN models
        THEN /\ query.result.ok
             /\ query.result.provider_id = query.provider
             /\ query.result.model_info = models[query.model]
        ELSE /\ ~query.result.ok
             /\ query.result.error.kind = "ModelNotFoundError"

\* A lookup hinted to a provider that does not declare the model raised,
\* although another provider declares it.
C13_Witness ==
    /\ query.op = "get_model_info" /\ query.provider \in DOMAIN provider_info
    /\ query.model \notin DOMAIN provider_info[query.provider].models
    /\ Declaring(query.model) # {}
    /\ ~query.result.ok

\* C14: get_model_info without a hint returns the first provider in
\* registry order that declares the model, with that provider's ModelInfo,
\* and raises ModelNotFoundError only when no provider declares it.
C14_FirstDeclaringProvider ==
    (query.op = "get_model_info" /\ query.provider = NoneStr) =>
        LET with == Declaring(query.model) IN
        IF with = {}
        THEN /\ ~query.result.ok
             /\ query.result.error.kind = "ModelNotFoundError"
        ELSE LET first == CHOOSE i \in with : \A j \in with : i <= j IN
             /\ query.result.ok
             /\ query.result.provider_id = ProviderOrder[first]
             /\ query.result.model_info =
                    provider_info[ProviderOrder[first]].models[query.model]

\* A lookup without hint of a model two providers declare gave the first.
C14_Witness ==
    /\ query.op = "get_model_info" /\ query.provider = NoneStr
    /\ Cardinality(Declaring(query.model)) = 2
    /\ query.result.ok

\* C15 as stated: get_model_info with a hint that names no known provider
\* raises ModelNotFoundError whose available_models are the model ids of
\* the whole registry.
C15_UnknownHintCarriesCatalog ==
    (query.op = "get_model_info" /\ query.provider # NoneStr
        /\ query.provider \notin DOMAIN provider_info) =>
            /\ ~query.result.ok
            /\ query.result.error.kind = "ModelNotFoundError"
            /\ Elements(query.result.error.available_models) = Catalog

\* C16: get_model_info without a hint, for a model no provider declares,
\* raises ModelNotFoundError whose available_models hold every model id of
\* the registry and nothing else.
C16_NotFoundCarriesCatalog ==
    (query.op = "get_model_info" /\ query.provider = NoneStr
        /\ Declaring(query.model) = {}) =>
            /\ ~query.result.ok
            /\ query.result.error.kind = "ModelNotFoundError"
            /\ Elements(query.result.error.available_models) = Catalog

\* A lookup without hint of an undeclared model raised, and the error
\* lists a model of the last provider.
C16_Witness ==
    /\ query.op = "get_model_info" /\ query.provider = NoneStr
    /\ query.model \notin Catalog
    /\ ~query.result.ok
    /\ "acme1" \in Elements(query.result.error.available_models)

\* C17: whatever queries, calls and close() ran, the registry is the one
\* construction loaded, and the answer of a get_model_info is the answer
\* the same arguments get from that registry.
C17_RegistryReadOnly ==
    /\ provider_info = ConfiguredProviders
    /\ query.op = "get_model_info" =>
          query.result = get_model_info(ConfiguredProviders, query.model, query.provider)

\* A failing lookup after a call that ended with an error and a close()
\* that an adapter's close made fail.
C17_Witness ==
    /\ query.op = "get_model_info" /\ ~query.result.ok
    /\ calls[Single].outcome = "error"
    /\ closing.pc = "error"

-----------------------------------------------------------------------------
(* C18..C20: collect on the stream of a generate_stream call (SpecCollect). *)

\* The events collect pulled from the stream of call c: those the stream
\* produced after the ones the consumer had iterated itself.
CollectInput(c) ==
    SubSeq(calls[c].produced, Len(calls[c].delivered) + 1, Len(calls[c].produced))

\* The consumer's collect on the stream of call c ended, and the stream
\* itself raised nothing: collect was applied to CollectInput(c).
Collected(c) ==
    /\ calls[c].collect_pc \in {"returned", "raised"}
    /\ calls[c].adapter_error = NoError

\* The content fragments, and the thinking fragments, of an event sequence.
RECURSIVE ConcatContent(_)
ConcatContent(events) ==
    IF events = <<>> THEN "" ELSE Head(events).content \o ConcatContent(Tail(events))
RECURSIVE ConcatThinking(_)
ConcatThinking(events) ==
    IF events = <<>> THEN ""
    ELSE (IF Head(events).thinking = NoneStr THEN "" ELSE Head(events).thinking)
         \o ConcatThinking(Tail(events))

\* The terminal events of a sequence whose metadata holds a usage payload.
TerminalUsage(events) ==
    {i \in DOMAIN events :
        /\ events[i].is_complete
        /\ events[i].metadata # NoneVal
        /\ "usage" \in DOMAIN events[i].metadata[1]}

\* C18 as stated: collect returns, for every event sequence, an LLMResponse
\* whose content is the concatenation of the events' content and whose
\* thinking is the concatenation of the events' thinking, None when no
\* event carried thinking.
C18_CollectConcatenates ==
    \A c \in CallIds : Collected(c) =>
        LET events == CollectInput(c) IN
        /\ calls[c].collect_pc = "returned"
        /\ calls[c].collected.content = ConcatContent(events)
        /\ calls[c].collected.thinking =
              IF \E i \in DOMAIN events : events[i].thinking # NoneStr
              THEN ConcatThinking(events) ELSE NoneStr

\* C19 as stated: collect on a sequence of events with optional metadata
\* consumes the sequence and returns, with usage None when no terminal
\* event holds a usage payload; it raises nothing.
C19_CollectNeverFails ==
    \A c \in CallIds : Collected(c) =>
        /\ calls[c].collect_pc = "returned"
        /\ calls[c].collect_error = NoError
        /\ TerminalUsage(CollectInput(c)) = {} => calls[c].collected.usage = NoneVal

\* C20: the LLMResponse collect returns has a Usage exactly when a terminal
\* event of the sequence holds a usage payload in its metadata; its four
\* fields are then the values of the payload of the last such event,
\* reasoning_tokens None when the payload has none; a usage key of a
\* non-terminal event gives none.
C20_UsageFromTerminalPayload ==
    \A c \in CallIds : calls[c].collect_pc = "returned" =>
        LET events == CollectInput(c)
            with == TerminalUsage(events)
        IN  IF with = {}
            THEN calls[c].collected.usage = NoneVal
            ELSE LET last == CHOOSE i \in with : \A j \in with : j <= i
                     payload == events[last].metadata[1].usage
                 IN  calls[c].collected.usage =
                        Some([prompt_tokens |-> payload.prompt_tokens,
                              completion_tokens |-> payload.completion_tokens,
                              total_tokens |-> payload.total_tokens,
                              reasoning_tokens |->
                                  IF "reasoning_tokens" \in DOMAIN payload
                                  THEN Some(payload.reasoning_tokens) ELSE NoneVal])

\* collect returned a Usage whose total is not the sum of its parts, from a
\* sequence in which a non-terminal event also had a usage key.
C20_Witness ==
    \E c \in CallIds :
        /\ calls[c].collect_pc = "returned"
        /\ calls[c].collected.usage # NoneVal
        /\ calls[c].collected.usage[1].total_tokens = 9
        /\ calls[c].collected.usage[1].reasoning_tokens = Some(3)
        /\ \E i \in DOMAIN CollectInput(c) :
              /\ ~CollectInput(c)[i].is_complete
              /\ CollectInput(c)[i].metadata # NoneVal
              /\ "usage" \in DOMAIN CollectInput(c)[i].metadata[1]

-----------------------------------------------------------------------------
(* C21, C22: the metadata collect returns, and collecting again.           *)

\* The events of a sequence whose metadata map holds key.
Carrying(events, key) ==
    {i \in DOMAIN events :
        events[i].metadata # NoneVal /\ key \in DOMAIN events[i].metadata[1]}

\* Every key of every event's metadata map.
MetadataKeys(events) ==
    UNION {DOMAIN events[i].metadata[1] : i \in {j \in DOMAIN events : events[j].metadata # NoneVal}}

\* C21: the metadata of the LLMResponse collect returns has exactly the
\* keys of the events' metadata maps, each with the value of the last
\* event that carried it.
C21_MetadataLastWriteWins ==
    \A c \in CallIds : calls[c].collect_pc = "returned" =>
        LET events == CollectInput(c)
            md == calls[c].collected.metadata
        IN  /\ md # NoneVal
            /\ DOMAIN md[1] = MetadataKeys(events)
            /\ \A key \in MetadataKeys(events) :
                  LET last == CHOOSE i \in Carrying(events, key) :
                                  \A j \in Carrying(events, key) : j <= i
                  IN  md[1][key] = events[last].metadata[1][key]

\* collect returned after two events carried the same key with different
\* values.
C21_Witness ==
    \E c \in CallIds :
        /\ calls[c].collect_pc = "returned"
        /\ \E i, j \in Carrying(CollectInput(c), "k") :
              /\ i < j
              /\ CollectInput(c)[i].metadata[1].k # CollectInput(c)[j].metadata[1].k

\* C22 as stated: a second collect on the same StreamingResponse returns
\* what the first returned, and a collect after the consumer iterated some
\* events returns what collect gives on the whole event sequence.
C22_CollectIdempotent ==
    \A c \in CallIds : calls[c].collect_pc = "returned" =>
        /\ calls[c].collect_calls = 2 => calls[c].recollected = calls[c].collected
        /\ calls[c].collected =
              CollectResult(CollectAll(CollectInit, calls[c].produced), calls[c].sr)

-----------------------------------------------------------------------------
(* C23: iterating the stream of generate_stream (Spec).                    *)

\* C23: at every point of the iteration of a stream returned by
\* generate_stream, the events handed to the consumer are the events the
\* adapter produced, in the same order, each once: none is missing,
\* repeated or out of place, and none has been pulled from the adapter
\* that the consumer has not got.
C23_DeliveredInOrder ==
    \A c \in CallIds : calls[c].op = "generate_stream" =>
        calls[c].delivered = calls[c].produced

\* The consumer got three events, not all the same, from a stream.
C23_Witness ==
    \E c \in CallIds :
        /\ calls[c].op = "generate_stream"
        /\ Len(calls[c].delivered) = 3
        /\ calls[c].delivered[1] # calls[c].delivered[2]
        /\ calls[c].delivered[2] # calls[c].delivered[3]

-----------------------------------------------------------------------------
(* C24: abandoning a stream (Spec).                                        *)

\* C24 as stated: once the consumer has left the iteration of a stream
\* before its end, the connection of the stream has been released, once;
\* and no connection is ever released twice.
C24_AbandonReleasesOnce ==
    \A c \in CallIds :
        /\ calls[c].released <= calls[c].acquired
        /\ calls[c].pc \in {"abandoned", "dropped", "finalized"} =>
              calls[c].released = 1

-----------------------------------------------------------------------------
(* C25, C26: close() (SpecReg).                                            *)

\* C25 as stated: when one close() call has ended, by returning or by
\* raising, every adapter of the live adapter map has had its close
\* called exactly once.
C25_CloseReleasesEveryAdapter ==
    (closing.started = 1 /\ closing.pc \in {"done", "error"}) =>
        \A p \in providers : closing.closed[p] = 1

\* C26 as stated: a generate or generate_stream call made after close()
\* returned fails, and calls no adapter method.
C26_UnusableAfterClose ==
    \A c \in CallIds : calls[c].after_close =>
        /\ calls[c].inv = <<>>
        /\ Done(c) /\ calls[c].outcome = "error"

-----------------------------------------------------------------------------
(* C27: the context a stream carries (SpecConc, SpecCollect).              *)

\* C27 as stated: the stream generate_stream returned carries the provider
\* the request resolved to, the model the caller asked for, the request id
\* of this call and a creation time; and the LLMResponse collect returns
\* from it has these four values.
C27_StreamCarriesContext ==
    \A c \in CallIds : (calls[c].op = "generate_stream" /\ calls[c].outcome = "stream") =>
        LET call == calls[c] IN
        /\ call.sr.provider = Resolution(CallerConfig(c)).provider_id
        /\ call.sr.model = CallerConfig(c).model
        /\ call.sr.request_id = Some(call.request_id)
        /\ call.sr.created_at \in Timestamps
        /\ call.collect_pc = "returned" =>
              /\ call.collected.provider = call.sr.provider
              /\ call.collected.model = call.sr.model
              /\ call.collected.request_id = call.sr.request_id
              /\ call.collected.created_at = call.sr.created_at

-----------------------------------------------------------------------------
(* C28: no fallback to another provider (Spec).                            *)

\* C28: a call without a provider hint, for a model whose first declaring
\* provider in registry order has no live adapter, raises
\* ConfigurationError and calls no adapter, whether or not a later
\* declaring provider has a live adapter.
C28_NoFallback ==
    \A c \in CallIds : Started(c) =>
        LET config == CallerConfig(c)
            with == Declaring(config.model)
        IN  (config.provider = NoneStr /\ with # {}
             /\ ProviderOrder[CHOOSE i \in with : \A j \in with : i <= j] \notin providers) =>
                /\ Done(c) /\ calls[c].outcome = "error"
                /\ calls[c].error.kind = "ConfigurationError"
                /\ calls[c].inv = <<>>

\* A call without hint for a model of two providers, the first without a
\* live adapter and the second with one, raised ConfigurationError.
C28_Witness ==
    \E c \in CallIds :
        /\ Done(c) /\ CallerConfig(c).provider = NoneStr
        /\ \E i, j \in Declaring(CallerConfig(c).model) :
              /\ i < j
              /\ ProviderOrder[i] \notin providers
              /\ ProviderOrder[j] \in providers
        /\ calls[c].error.kind = "ConfigurationError"
        /\ calls[c].inv = <<>>

-----------------------------------------------------------------------------
(* C29: the live adapter map (SpecReg).                                    *)

\* C29: in every state the live adapter map holds the providers of the
\* registry that have an adapter class and a non-empty api_key and whose
\* adapter constructor returned, and only them: no call, query or close()
\* adds or removes one.
C29_LiveAdapterMap ==
    providers = {p \in DOMAIN provider_info :
                    /\ p \in provider_classes
                    /\ provider_metadata[p].api_key # ""
                    /\ p \notin ctor_raises}

\* After a call that passed validation and a close() that returned, the
\* map is without a provider that has an api_key and whose constructor
\* raised.
C29_Witness ==
    /\ closing.pc = "done"
    /\ calls[Single].inv # <<>>
    /\ \E p \in ctor_raises : provider_metadata[p].api_key # "" /\ p \notin providers
    /\ providers # {}

====
